---- MODULE Spec2Model ----
(***************************************************************************)
(* Model of scripts/clinical_sentiment_analysis.py: the lazily loaded      *)
(* three-model ensemble ClinicalSentimentAnalyzer, its score normalizer    *)
(* and the module-level convenience function.                              *)
(*                                                                         *)
(* Scores are fixed-point numbers in tenths (9 stands for 0.9), so a       *)
(* normalized score lies in -10..10.  A mean is kept as an exact fraction  *)
(* [num, den].  The pretrained pipelines are external: whether one can be  *)
(* constructed, and what it returns or whether it raises on a text, is     *)
(* chosen by the environment at every call.                                *)
(***************************************************************************)
EXTENDS Integers, Sequences, FiniteSets, TLC

VARIABLES
    models_loaded,  \* self.models_loaded
    model1,         \* self.model1: None or the pipeline it holds
    model2,         \* self.model2
    model3,         \* self.model3
    built,          \* per capability: how often its construction was attempted
    made,           \* per capability: how often its construction succeeded
    call,           \* the last call made by the client and how it ended
    norm,           \* one application of _normalize_score (SpecNorm only)
    thr             \* where each thread is in analyze_sentiment (SpecThreads only)

vars == <<models_loaded, model1, model2, model3, built, made, call, norm, thr>>

----------------------------------------------------------------------------
(* Bounds and input sets *)

\* Largest number of runs of the body of _load_models on the shared analyzer.
MaxLoadAttempts == 2

\* Largest number of analyze_sentiment calls one thread makes (SpecThreads).
MaxThreadCalls == 1

\* The threads that share the analyzer (SpecThreads).
Threads == {"A", "B"}

None == "None"

\* The four pipelines _load_models can construct.
MentalBert == "mental/mental-bert-base-uncased"
RobertaFallback == "cardiffnlp/twitter-roberta-base-sentiment-latest (fallback)"
Roberta == "cardiffnlp/twitter-roberta-base-sentiment-latest"
BertSST2 == "textattack/bert-base-uncased-SST-2"
Capabilities == {MentalBert, RobertaFallback, Roberta, BertSST2}

Slots == 1..3

\* A text argument: Python None, or a str.
NoneText == [isNone |-> TRUE, s |-> ""]
Str(s) == [isNone |-> FALSE, s |-> s]
Whitespace == {" ", "\t"}
Texts ==
    {NoneText} \cup
    {Str(s) : s \in {"", "aa", " aa\t", "aaa", " aaa "}}

\* What a pipeline call can do: raise, or return [{'label': .., 'score': ..}].
Raises == [raises |-> TRUE, label |-> "", score |-> 0]
Returns(l, c) == [raises |-> FALSE, label |-> l, score |-> c]
InferResults ==
    {Raises, Returns("NEGATIVE", 9), Returns("NEG", 8), Returns("positive", 5)}

----------------------------------------------------------------------------
(* str helpers *)

Lowercase == "abcdefghijklmnopqrstuvwxyz"
Uppercase == "ABCDEFGHIJKLMNOPQRSTUVWXYZ"

Char(s, i) == SubSeq(s, i, i)

\* str.upper() of one character
UpperChar(c) ==
    IF \E i \in 1..Len(Lowercase) : Char(Lowercase, i) = c
    THEN Char(Uppercase, CHOOSE i \in 1..Len(Lowercase) : Char(Lowercase, i) = c)
    ELSE c

RECURSIVE Upper(_)
\* str.upper()
Upper(s) ==
    IF Len(s) = 0 THEN ""
    ELSE UpperChar(Char(s, 1)) \o Upper(SubSeq(s, 2, Len(s)))

\* sub in s
Contains(sub, s) ==
    \E i \in 1..(Len(s) - Len(sub) + 1) : SubSeq(s, i, i + Len(sub) - 1) = sub

RECURSIVE LStrip(_)
LStrip(s) ==
    IF Len(s) > 0 /\ Char(s, 1) \in Whitespace
    THEN LStrip(SubSeq(s, 2, Len(s)))
    ELSE s

RECURSIVE RStrip(_)
RStrip(s) ==
    IF Len(s) > 0 /\ Char(s, Len(s)) \in Whitespace
    THEN RStrip(SubSeq(s, 1, Len(s) - 1))
    ELSE s

\* str.strip()
Strip(s) == RStrip(LStrip(s))

----------------------------------------------------------------------------
(* ClinicalSentimentAnalyzer *)

\* len(text.strip()) < 3
MinTextLen == 3

\* __init__: nothing is loaded
NewAnalyzer ==
    [models_loaded |-> FALSE, model1 |-> None, model2 |-> None, model3 |-> None,
     built |-> [c \in Capabilities |-> 0], made |-> [c \in Capabilities |-> 0]]

\* AutoTokenizer.from_pretrained(..) and pipeline(..) for cap are entered
Attempt(self, cap) == [self EXCEPT !.built[cap] = @ + 1]

\* .. and returned the pipeline
Made(self, cap) == [self EXCEPT !.made[cap] = @ + 1]

\* A model 1 whose except clause only prints a warning, as for models 2 and 3
LoadModel1_no_fallback(self, ok) ==
    LET t == Attempt(self, MentalBert) IN
    IF ok[MentalBert]
    THEN [raised |-> FALSE,
          self |-> [Made(t, MentalBert) EXCEPT !.model1 = MentalBert]]
    ELSE [raised |-> FALSE, self |-> t]

\* Model 1: try the primary; its except clause constructs the fallback with
\* no handler of its own, so a failure of the fallback leaves _load_models.
LoadModel1(self, ok) ==
    LET t == Attempt(self, MentalBert) IN
    IF ok[MentalBert]
    THEN [raised |-> FALSE,
          self |-> [Made(t, MentalBert) EXCEPT !.model1 = MentalBert]]
    ELSE LET f == Attempt(t, RobertaFallback) IN
         IF ok[RobertaFallback]
         THEN [raised |-> FALSE,
               self |-> [Made(f, RobertaFallback) EXCEPT !.model1 = RobertaFallback]]
         ELSE [raised |-> TRUE, self |-> f]

\* Model 2: try; except prints a warning and goes on
LoadModel2(self, ok) ==
    LET t == Attempt(self, Roberta) IN
    IF ok[Roberta] THEN [Made(t, Roberta) EXCEPT !.model2 = Roberta] ELSE t

\* Model 3: try; except prints a warning and goes on
LoadModel3(self, ok) ==
    LET t == Attempt(self, BertSST2) IN
    IF ok[BertSST2] THEN [Made(t, BertSST2) EXCEPT !.model3 = BertSST2] ELSE t

\* A _load_models that sets models_loaded in a finally clause
load_models_finally(self, ok) ==
    IF self.models_loaded
    THEN [raised |-> FALSE, self |-> self]
    ELSE LET m1 == LoadModel1(self, ok) IN
         IF m1.raised
         THEN [raised |-> TRUE, self |-> [m1.self EXCEPT !.models_loaded = TRUE]]
         ELSE [raised |-> FALSE,
               self |-> [LoadModel3(LoadModel2(m1.self, ok), ok)
                            EXCEPT !.models_loaded = TRUE]]

\* _load_models: ok[cap] says whether the construction of cap succeeds
load_models(self, ok) ==
    IF self.models_loaded
    THEN [raised |-> FALSE, self |-> self]
    ELSE LET m1 == LoadModel1(self, ok) IN
         IF m1.raised
         THEN m1
         ELSE [raised |-> FALSE,
               self |-> [LoadModel3(LoadModel2(m1.self, ok), ok)
                            EXCEPT !.models_loaded = TRUE]]

\* A normalizer that tests the short forms NEG and POS first
normalize_score_short_first(result) ==
    LET label == Upper(result.label)
        score == result.score
    IN  IF Contains("NEG", label) \/ label = "LABEL_0" THEN -score
        ELSE IF Contains("POS", label) \/ label = "LABEL_1" THEN score
        ELSE 0

\* _normalize_score on result = [{'label': label, 'score': score}]
normalize_score(result) ==
    LET label == Upper(result.label)
        score == result.score
    IN  IF Contains("NEGATIVE", label) \/ label = "LABEL_0" THEN -score
        ELSE IF Contains("POSITIVE", label) \/ label = "LABEL_1" THEN score
        ELSE IF Contains("NEUTRAL", label) \/ label = "LABEL_2" THEN 0
        ELSE IF Contains("NEG", label) THEN -score
        ELSE IF Contains("POS", label) THEN score
        ELSE 0

\* A length check that forgets to strip
TooShort_unstripped(text) ==
    \/ text.isNone
    \/ Len(text.s) < MinTextLen

\* not text or len(text.strip()) < 3
TooShort(text) ==
    \/ text.isNone
    \/ Len(text.s) = 0
    \/ Len(Strip(text.s)) < MinTextLen

\* TooShort, evaluated once for every text the client can pass
IsTooShort == [text \in Texts |-> TooShort(text)]

\* _normalize_score, evaluated once for every result a pipeline can return
NormalizedScore == [r \in InferResults \ {Raises} |-> normalize_score(r)]

\* self.modelN(text): calling None raises TypeError, a pipeline does what the
\* environment chose for this call
Invoke(model, out) == IF model = None THEN Raises ELSE out

\* try: weight = self._normalize_score(result); except: weight = 0.0
Weight(r) == IF r.raises THEN 0 ELSE NormalizedScore[r]

\* An analyze_sentiment with one try block around the three models
analyze_sentiment_one_try(self, text, ok, inf) ==
    LET ld == IF ~self.models_loaded
              THEN load_models(self, ok)
              ELSE [raised |-> FALSE, self |-> self]
    IN  IF ld.raised
        THEN [self |-> ld.self, outcome |-> "raised", result |-> <<>>,
              invoked |-> <<>>, raw |-> <<>>]
        ELSE IF IsTooShort[text]
        THEN [self |-> ld.self, outcome |-> "returned", result |-> <<0, 0, 0>>,
              invoked |-> <<>>, raw |-> <<>>]
        ELSE LET result1 == Invoke(ld.self.model1, inf[1])
                 result2 == Invoke(ld.self.model2, inf[2])
                 result3 == Invoke(ld.self.model3, inf[3])
             IN  [self |-> ld.self, outcome |-> "returned",
                  result |-> IF result1.raises \/ result2.raises \/ result3.raises
                             THEN <<0, 0, 0>>
                             ELSE <<Weight(result1), Weight(result2), Weight(result3)>>,
                  invoked |-> <<1, 2, 3>>,
                  raw |-> <<result1, result2, result3>>]

\* An analyze_sentiment whose except clauses also drop the model that raised
analyze_sentiment_drops_failed(self, text, ok, inf) ==
    LET ld == IF ~self.models_loaded
              THEN load_models(self, ok)
              ELSE [raised |-> FALSE, self |-> self]
    IN  IF ld.raised
        THEN [self |-> ld.self, outcome |-> "raised", result |-> <<>>,
              invoked |-> <<>>, raw |-> <<>>]
        ELSE IF IsTooShort[text]
        THEN [self |-> ld.self, outcome |-> "returned", result |-> <<0, 0, 0>>,
              invoked |-> <<>>, raw |-> <<>>]
        ELSE LET result1 == Invoke(ld.self.model1, inf[1])
                 result2 == Invoke(ld.self.model2, inf[2])
                 result3 == Invoke(ld.self.model3, inf[3])
             IN  [self |-> [ld.self EXCEPT
                              !.model1 = IF result1.raises THEN None ELSE @,
                              !.model2 = IF result2.raises THEN None ELSE @,
                              !.model3 = IF result3.raises THEN None ELSE @],
                  outcome |-> "returned",
                  result |-> <<Weight(result1), Weight(result2), Weight(result3)>>,
                  invoked |-> <<1, 2, 3>>,
                  raw |-> <<result1, result2, result3>>]

\* analyze_sentiment: ok decides the constructions, inf[i] what model i does
analyze_sentiment(self, text, ok, inf) ==
    LET ld == IF ~self.models_loaded
              THEN load_models(self, ok)
              ELSE [raised |-> FALSE, self |-> self]
    IN  IF ld.raised
        THEN [self |-> ld.self, outcome |-> "raised", result |-> <<>>,
              invoked |-> <<>>, raw |-> <<>>]
        ELSE IF IsTooShort[text]
        THEN [self |-> ld.self, outcome |-> "returned", result |-> <<0, 0, 0>>,
              invoked |-> <<>>, raw |-> <<>>]
        ELSE LET result1 == Invoke(ld.self.model1, inf[1])
                 result2 == Invoke(ld.self.model2, inf[2])
                 result3 == Invoke(ld.self.model3, inf[3])
             IN  [self |-> ld.self, outcome |-> "returned",
                  result |-> <<Weight(result1), Weight(result2), Weight(result3)>>,
                  invoked |-> <<1, 2, 3>>,
                  raw |-> <<result1, result2, result3>>]

RECURSIVE Sum(_)
Sum(ws) == IF ws = <<>> THEN 0 ELSE Head(ws) + Sum(Tail(ws))

\* np.mean, as an exact fraction
Mean(ws) == [num |-> Sum(ws), den |-> Len(ws)]

NoMean == [num |-> 0, den |-> 0]

\* A get_average_sentiment that averages the non-zero weights only
get_average_sentiment_nonzero(self, text, ok, inf) ==
    LET a == analyze_sentiment(self, text, ok, inf) IN
    [self |-> a.self, outcome |-> a.outcome, result |-> a.result,
     invoked |-> a.invoked, raw |-> a.raw,
     mean |-> IF a.outcome = "returned"
              THEN Mean(SelectSeq(a.result, LAMBDA w : w # 0))
              ELSE NoMean]

\* get_average_sentiment
get_average_sentiment(self, text, ok, inf) ==
    LET a == analyze_sentiment(self, text, ok, inf) IN
    [self |-> a.self, outcome |-> a.outcome, result |-> a.result,
     invoked |-> a.invoked, raw |-> a.raw,
     mean |-> IF a.outcome = "returned" THEN Mean(a.result) ELSE NoMean]

\* get_clinical_sentiment_weights: a new analyzer for every call
get_clinical_sentiment_weights(text, ok, inf) ==
    analyze_sentiment(NewAnalyzer, text, ok, inf)

----------------------------------------------------------------------------
(* The analyzer shared by the client's calls, and the environment *)

Analyzer ==
    [models_loaded |-> models_loaded, model1 |-> model1, model2 |-> model2,
     model3 |-> model3, built |-> built, made |-> made]

SetAnalyzer(self) ==
    /\ models_loaded' = self.models_loaded
    /\ model1' = self.model1
    /\ model2' = self.model2
    /\ model3' = self.model3
    /\ built' = self.built
    /\ made' = self.made

AllOk == [c \in Capabilities |-> TRUE]

\* Construction outcomes matter only to an analyzer that has not loaded, and
\* only for the constructions _load_models gets to: the fallback when the
\* primary of model 1 failed, models 2 and 3 when model 1 did not raise.
OkChoices(self) ==
    IF self.models_loaded
    THEN {AllOk}
    ELSE {ok \in [Capabilities -> BOOLEAN] :
            /\ ok[MentalBert] => ok[RobertaFallback]
            /\ ~ok[RobertaFallback] => ok[Roberta] /\ ok[BertSST2]}

ModelOf(self, i) ==
    CASE i = 1 -> self.model1 [] i = 2 -> self.model2 [] i = 3 -> self.model3

\* Pipeline outcomes matter only when the call reaches a pipeline.
InferChoices(self, text, ok) ==
    LET ld == load_models(self, ok) IN
    IF ld.raised \/ IsTooShort[text]
    THEN {[i \in Slots |-> Raises]}
    ELSE {inf \in [Slots -> InferResults] :
            \A i \in Slots : ModelOf(ld.self, i) = None => inf[i] = Raises}

\* _load_models runs its body only while models_loaded is false
CanCall == models_loaded \/ built[MentalBert] < MaxLoadAttempts

NoCall ==
    [op |-> "none", text |-> NoneText, outcome |-> "none", result |-> <<>>,
     invoked |-> <<>>, raw |-> <<>>, mean |-> NoMean]

NormIdle == [label |-> "", score |-> 0, done |-> FALSE, out |-> 0]

\* No thread is inside a call.
NoThreads ==
    [serialized |-> TRUE, pc |-> [t \in Threads |-> "idle"],
     calls |-> [t \in Threads |-> 0]]

\* analyzer = ClinicalSentimentAnalyzer(); no call made yet
Init ==
    /\ models_loaded = NewAnalyzer.models_loaded
    /\ model1 = NewAnalyzer.model1
    /\ model2 = NewAnalyzer.model2
    /\ model3 = NewAnalyzer.model3
    /\ built = NewAnalyzer.built
    /\ made = NewAnalyzer.made
    /\ call = NoCall
    /\ norm = NormIdle
    /\ thr = NoThreads

\* analyzer.analyze_sentiment(text)
AnalyzeCall ==
    /\ CanCall
    /\ \E text \in Texts : \E ok \in OkChoices(Analyzer) :
       \E inf \in InferChoices(Analyzer, text, ok) :
         LET r == analyze_sentiment(Analyzer, text, ok, inf) IN
         /\ SetAnalyzer(r.self)
         /\ call' = [op |-> "analyze", text |-> text, outcome |-> r.outcome,
                     result |-> r.result, invoked |-> r.invoked, raw |-> r.raw,
                     mean |-> NoMean]
    /\ UNCHANGED <<norm, thr>>

\* analyzer.get_average_sentiment(text)
AverageCall ==
    /\ CanCall
    /\ \E text \in Texts : \E ok \in OkChoices(Analyzer) :
       \E inf \in InferChoices(Analyzer, text, ok) :
         LET r == get_average_sentiment(Analyzer, text, ok, inf) IN
         /\ SetAnalyzer(r.self)
         /\ call' = [op |-> "average", text |-> text, outcome |-> r.outcome,
                     result |-> r.result, invoked |-> r.invoked, raw |-> r.raw,
                     mean |-> r.mean]
    /\ UNCHANGED <<norm, thr>>

\* get_clinical_sentiment_weights(text): its analyzer is dropped on return
AnalyzeOnceCall ==
    /\ \E text \in Texts : \E ok \in OkChoices(NewAnalyzer) :
       \E inf \in InferChoices(NewAnalyzer, text, ok) :
         LET r == get_clinical_sentiment_weights(text, ok, inf) IN
         call' = [op |-> "analyze_once", text |-> text, outcome |-> r.outcome,
                  result |-> r.result, invoked |-> r.invoked, raw |-> r.raw,
                  mean |-> NoMean]
    /\ UNCHANGED <<models_loaded, model1, model2, model3, built, made, norm, thr>>

\* analyzer._load_models() called directly
LoadCall ==
    /\ CanCall
    /\ \E ok \in OkChoices(Analyzer) :
         LET r == load_models(Analyzer, ok) IN
         /\ SetAnalyzer(r.self)
         /\ call' = [op |-> "load", text |-> NoneText,
                     outcome |-> IF r.raised THEN "raised" ELSE "returned",
                     result |-> <<>>, invoked |-> <<>>, raw |-> <<>>,
                     mean |-> NoMean]
    /\ UNCHANGED <<norm, thr>>

\* A client that keeps one analyzer and reuses it
NextAnalyzer == AnalyzeCall \/ AverageCall \/ LoadCall

SpecAnalyzer == Init /\ [][NextAnalyzer]_vars

\* A client that also uses the convenience function
Next == AnalyzeCall \/ AverageCall \/ LoadCall \/ AnalyzeOnceCall

Spec == Init /\ [][Next]_vars

----------------------------------------------------------------------------
(* _normalize_score on its own: every label and score of a bounded set *)

NormLabels ==
    {"NEGATIVE", "negative", "Negative", "POSITIVE", "positive", "Positive",
     "NEUTRAL", "neutral", "LABEL_0", "LABEL_1", "LABEL_2", "label_0",
     "label_1", "label_2", "NEG", "neg", "POS", "pos", "UNKNOWN_TAG", "",
     "positive_negative", "NEG_POSITIVE", "POS_NEUTRAL", "neutral_negative",
     "POS_NEG", "XLABEL_0", "LABEL_10", "5 stars"}

\* confidences 0.0, 0.5, 0.7, 0.9, 1.0
NormScores == {0, 5, 7, 9, 10}

InitNorm ==
    /\ models_loaded = NewAnalyzer.models_loaded
    /\ model1 = NewAnalyzer.model1
    /\ model2 = NewAnalyzer.model2
    /\ model3 = NewAnalyzer.model3
    /\ built = NewAnalyzer.built
    /\ made = NewAnalyzer.made
    /\ call = NoCall
    /\ \E l \in NormLabels, c \in NormScores :
         norm = [label |-> l, score |-> c, done |-> FALSE, out |-> 0]
    /\ thr = NoThreads

\* self._normalize_score([{'label': norm.label, 'score': norm.score}])
NormalizeCall ==
    /\ ~norm.done
    /\ norm' = [norm EXCEPT !.done = TRUE,
                            !.out = normalize_score(Returns(norm.label, norm.score))]
    /\ UNCHANGED <<models_loaded, model1, model2, model3, built, made, call, thr>>

NextNorm == NormalizeCall

SpecNorm == InitNorm /\ [][NextNorm]_vars

----------------------------------------------------------------------------
(* Threads that call analyze_sentiment on one analyzer.  Nothing in the    *)
(* class locks: a thread can be preempted between any two statements, so   *)
(* each statement that reads or writes self is a step of its own.  With    *)
(* thr.serialized the callers serialize their calls themselves.            *)

\* self.models_loaded = True, line 259, left out
SetLoaded_forgotten(self) == self

\* self.models_loaded = True, line 259
SetLoaded(self) == [self EXCEPT !.models_loaded = TRUE]

\* The texts the threads pass: one below the length limit, one not
ThreadTexts == {Str("aa"), Str("aaa")}

\* Construction outcomes for one statement of _load_models
StepOks == OkChoices(NewAnalyzer)

InitThreads ==
    /\ models_loaded = NewAnalyzer.models_loaded
    /\ model1 = NewAnalyzer.model1
    /\ model2 = NewAnalyzer.model2
    /\ model3 = NewAnalyzer.model3
    /\ built = NewAnalyzer.built
    /\ made = NewAnalyzer.made
    /\ call = NoCall
    /\ norm = NormIdle
    /\ \E b \in BOOLEAN : thr = [NoThreads EXCEPT !.serialized = b]

Goto(t, where) == thr' = [thr EXCEPT !.pc[t] = where]

\* the call ends: the thread is back in its caller
Leave(t) == thr' = [thr EXCEPT !.pc[t] = "idle", !.calls[t] = @ + 1]

\* line 351: if not self.models_loaded
ThreadEnter(t) ==
    /\ thr.pc[t] = "idle"
    /\ thr.calls[t] < MaxThreadCalls
    /\ thr.serialized => \A u \in Threads : thr.pc[u] = "idle"
    /\ Goto(t, IF ~models_loaded THEN "guard" ELSE "infer")
    /\ UNCHANGED <<models_loaded, model1, model2, model3, built, made, call, norm>>

\* line 183: if self.models_loaded: return
ThreadGuard(t) ==
    /\ thr.pc[t] = "guard"
    /\ Goto(t, IF models_loaded THEN "infer" ELSE "model1")
    /\ UNCHANGED <<models_loaded, model1, model2, model3, built, made, call, norm>>

\* lines 199-223: model 1; an exception of the fallback ends the call
ThreadModel1(t) ==
    /\ thr.pc[t] = "model1"
    /\ \E ok \in StepOks :
         LET r == LoadModel1(Analyzer, ok) IN
         /\ SetAnalyzer(r.self)
         /\ IF r.raised
            THEN /\ Leave(t)
                 /\ call' = [op |-> "analyze", text |-> NoneText,
                             outcome |-> "raised", result |-> <<>>,
                             invoked |-> <<>>, raw |-> <<>>, mean |-> NoMean]
            ELSE /\ Goto(t, "model2")
                 /\ UNCHANGED call
    /\ UNCHANGED norm

\* lines 227-241: model 2
ThreadModel2(t) ==
    /\ thr.pc[t] = "model2"
    /\ \E ok \in StepOks : SetAnalyzer(LoadModel2(Analyzer, ok))
    /\ Goto(t, "model3")
    /\ UNCHANGED <<call, norm>>

\* lines 244-257: model 3
ThreadModel3(t) ==
    /\ thr.pc[t] = "model3"
    /\ \E ok \in StepOks : SetAnalyzer(LoadModel3(Analyzer, ok))
    /\ Goto(t, "loaded")
    /\ UNCHANGED <<call, norm>>

\* line 259: self.models_loaded = True
ThreadSetLoaded(t) ==
    /\ thr.pc[t] = "loaded"
    /\ SetAnalyzer(SetLoaded(Analyzer))
    /\ Goto(t, "infer")
    /\ UNCHANGED <<call, norm>>

\* lines 354-380: the length check, the three models, return
ThreadInfer(t) ==
    /\ thr.pc[t] = "infer"
    /\ \E text \in ThreadTexts : \E inf \in InferChoices(Analyzer, text, AllOk) :
         LET r == analyze_sentiment(Analyzer, text, AllOk, inf) IN
         call' = [op |-> "analyze", text |-> text, outcome |-> r.outcome,
                  result |-> r.result, invoked |-> r.invoked, raw |-> r.raw,
                  mean |-> NoMean]
    /\ Leave(t)
    /\ UNCHANGED <<models_loaded, model1, model2, model3, built, made, norm>>

NextThreads ==
    \E t \in Threads :
        \/ ThreadEnter(t)
        \/ ThreadGuard(t)
        \/ ThreadModel1(t)
        \/ ThreadModel2(t)
        \/ ThreadModel3(t)
        \/ ThreadSetLoaded(t)
        \/ ThreadInfer(t)

SpecThreads == InitThreads /\ [][NextThreads]_vars

----------------------------------------------------------------------------
(* Claims *)

\* The texts of Texts that are missing, empty or shorter than 3 characters
\* once stripped, and the others.
ShortTexts == {NoneText, Str(""), Str("aa"), Str(" aa\t")}
LongTexts == {Str("aaa"), Str(" aaa ")}

\* C1: a call to analyze_sentiment, get_average_sentiment or
\* get_clinical_sentiment_weights always returns a value; no exception
\* reaches the caller, whatever constructions and inferences fail.
C1_NeverRaises ==
    call.op \in {"analyze", "average", "analyze_once"} => call.outcome = "returned"

\* C2: models_loaded is false until the first analyze call, and true once
\* an analyze call has ended, whatever constructions failed.
C2_LoadedAfterFirstCall ==
    /\ (\A c \in Capabilities : built[c] = 0) => ~models_loaded
    /\ call.op \in {"analyze", "average"} => models_loaded

\* The first load attempt of slot i has ended (Ready, or Unavailable when the
\* slot holds None).
SlotEnded(i) ==
    CASE i = 1 -> built[MentalBert] > 0
      [] i = 2 -> built[Roberta] > 0
      [] i = 3 -> built[BertSST2] > 0

SlotCapabilities(i) ==
    CASE i = 1 -> {MentalBert, RobertaFallback}
      [] i = 2 -> {Roberta}
      [] i = 3 -> {BertSST2}

\* C3: one-shot initialization: once the first load attempt of a slot has
\* ended, no later call changes what the slot holds or attempts another
\* construction for it.
C3_OneShot ==
    [][\A i \in Slots :
          SlotEnded(i) =>
            /\ ModelOf(Analyzer, i)' = ModelOf(Analyzer, i)
            /\ \A c \in SlotCapabilities(i) : built'[c] = built[c]]_vars

AnalyzerUnchanged ==
    UNCHANGED <<models_loaded, model1, model2, model3, built, made>>

\* C4 as the spec states it, its frame: an analyze call on a too short text
\* touches no slot: it constructs no pipeline, invokes no model and leaves
\* what the slots hold and the loaded flag as they were.
C4_ShortTextTouchesNothing ==
    [][(call'.op = "analyze" /\ call'.text \in ShortTexts) =>
          /\ call'.invoked = <<>>
          /\ made' = made
          /\ UNCHANGED <<model1, model2, model3, models_loaded>>]_vars

\* C4 as the code has it: an analyze call on a too short text invokes no
\* model; on a loaded analyzer it returns (0.0, 0.0, 0.0) and leaves the
\* analyzer as it was; on an analyzer that has not loaded it runs
\* _load_models first, before it looks at the text.
C4_ShortTextAfterLoad ==
    [][(call'.op = "analyze" /\ call'.text \in ShortTexts) =>
          /\ call'.invoked = <<>>
          /\ models_loaded =>
                /\ call'.outcome = "returned"
                /\ call'.result = <<0, 0, 0>>
                /\ AnalyzerUnchanged
          /\ ~models_loaded => built'[MentalBert] = built[MentalBert] + 1]_vars

\* A too short text was analyzed by the call that loaded the models.
C4_Witness ==
    /\ call.op = "analyze"
    /\ call.text = Str(" aa\t")
    /\ call.outcome = "returned"
    /\ call.result = <<0, 0, 0>>
    /\ models_loaded
    /\ built[MentalBert] = 1 /\ built[Roberta] = 1 /\ built[BertSST2] = 1

\* C5: in every state of the analyzer, analyze returns exactly
\* (0.0, 0.0, 0.0) for a missing, empty or stripped-shorter-than-3 text and
\* goes on to invoke the models for a text of stripped length 3 or more.
C5_BoundaryIsThree ==
    call.op = "analyze" =>
        /\ call.text \in ShortTexts =>
              call.outcome = "returned" /\ call.result = <<0, 0, 0>>
        /\ call.text \in LongTexts => call.invoked = <<1, 2, 3>>

\* The score the spec gives for each result a pipeline of InferResults returns
C6_Expected(r) ==
    CASE r = Returns("NEGATIVE", 9) -> -9
      [] r = Returns("NEG", 8) -> -8
      [] r = Returns("positive", 5) -> 5

Unavailable(i) == SlotEnded(i) /\ ModelOf(Analyzer, i) = None

\* C7: a slot that is Unavailable contributes exactly 0.0 to every later
\* analyze call on a valid text, and the call still returns the triple with
\* the scores of the other slots.
C7_UnavailableIsZero ==
    [][\A i \in Slots :
          (Unavailable(i) /\ call'.op = "analyze" /\ call'.text \in LongTexts) =>
            /\ call'.outcome = "returned"
            /\ call'.result[i] = 0]_vars

\* The six rules of the spec's priority list, on the upper-cased label
Rule1(l) == Contains("NEGATIVE", l) \/ l = "LABEL_0"
Rule2(l) == Contains("POSITIVE", l) \/ l = "LABEL_1"
Rule3(l) == Contains("NEUTRAL", l) \/ l = "LABEL_2"
Rule4(l) == Contains("NEG", l)
Rule5(l) == Contains("POS", l)

\* C8: _normalize_score gives what the first matching rule of the priority
\* list gives, so a score in -1..1; labels match whatever their case, and a
\* label no rule matches gives 0.0.
C8_NormalizePriority ==
    norm.done =>
      LET l == Upper(norm.label)
          c == norm.score
          out == norm.out
      IN  /\ Rule1(l) => out = -c
          /\ ~Rule1(l) /\ Rule2(l) => out = c
          /\ ~Rule1(l) /\ ~Rule2(l) /\ Rule3(l) => out = 0
          /\ ~Rule1(l) /\ ~Rule2(l) /\ ~Rule3(l) /\ Rule4(l) => out = -c
          /\ ~Rule1(l) /\ ~Rule2(l) /\ ~Rule3(l) /\ ~Rule4(l) /\ Rule5(l) => out = c
          /\ ~Rule1(l) /\ ~Rule2(l) /\ ~Rule3(l) /\ ~Rule4(l) /\ ~Rule5(l) => out = 0
          /\ out \in -10..10
          /\ norm.label \in {"NEGATIVE", "negative", "Negative", "LABEL_0",
                             "label_0", "NEG", "neg", "positive_negative",
                             "neutral_negative", "POS_NEG"} => out = -c
          /\ norm.label \in {"POSITIVE", "positive", "Positive", "LABEL_1",
                             "label_1", "POS", "pos", "NEG_POSITIVE"} => out = c
          /\ norm.label \in {"NEUTRAL", "neutral", "LABEL_2", "label_2",
                             "POS_NEUTRAL", "UNKNOWN_TAG", "", "XLABEL_0",
                             "LABEL_10", "5 stars"} => out = 0

\* A lower-case label that rule 3 decides although rule 5 matches it too
C8_Witness ==
    /\ norm.done
    /\ norm.label = "POS_NEUTRAL"
    /\ norm.score = 7
    /\ norm.out = 0

C10_LoadIdempotent ==
    [][built[MentalBert] > 0 =>
          /\ UNCHANGED <<model1, model2, model3>>
          /\ made' = made]_vars

\* The last call ran the three models.
Inferred(c) ==
    c.op \in {"analyze", "average"} /\ c.outcome = "returned" /\ c.invoked = <<1, 2, 3>>

\* C11: an inference failure is local to its call: the slot whose pipeline
\* raised scores 0.0 in that call, keeps its pipeline (it does not become
\* Unavailable), and scores its normalized result again in the next call in
\* which the pipeline does not raise.
C11_InferenceFailureIsLocal ==
    [][\A i \in Slots :
          Inferred(call') =>
            /\ call'.raw[i].raises => call'.result[i] = 0
            /\ models_loaded =>
                 /\ ModelOf(Analyzer, i)' = ModelOf(Analyzer, i)
                 /\ models_loaded'
            /\ (Inferred(call) /\ call.raw[i].raises /\ ModelOf(Analyzer, i) # None
                  /\ ~call'.raw[i].raises) =>
                 call'.result[i] = C6_Expected(call'.raw[i])]_vars

\* The pipeline of model 2 raised in the last call: model 2 scored 0.0, the
\* other two scored, and model 2 still holds its pipeline.
C11_Witness ==
    /\ Inferred(call)
    /\ call.raw = <<Returns("NEGATIVE", 9), Raises, Returns("positive", 5)>>
    /\ call.result = <<-9, 0, 5>>
    /\ model2 = Roberta
    /\ models_loaded

\* C12: what a run of _load_models leaves in each slot, by the outcome of the
\* constructions it attempts: slot 1 holds the primary when the primary is
\* constructed, the fallback (Degraded) when the primary fails and the
\* fallback is constructed, nothing (Unavailable) when both fail; the
\* fallback is attempted only after the primary failed; slots 2 and 3 hold
\* their pipeline exactly when its construction was attempted and succeeded.
\* A Degraded slot 1 answers from the fallback: its score is the normalized
\* result, not a forced 0.0.
C12_LoadOutcomePerSlot ==
    /\ (~models_loaded /\ CanCall) =>
         \A ok \in OkChoices(Analyzer) :
           LET r == load_models(Analyzer, ok).self
               tried(c) == r.built[c] = built[c] + 1
               untried(c) == r.built[c] = built[c]
           IN  /\ tried(MentalBert)
               /\ ok[MentalBert] =>
                    r.model1 = MentalBert /\ untried(RobertaFallback)
               /\ (~ok[MentalBert] /\ ok[RobertaFallback]) =>
                    r.model1 = RobertaFallback /\ tried(RobertaFallback)
               /\ (~ok[MentalBert] /\ ~ok[RobertaFallback]) =>
                    r.model1 = None /\ tried(RobertaFallback)
               /\ tried(RobertaFallback) => ~ok[MentalBert]
               /\ r.model2 = (IF tried(Roberta) /\ ok[Roberta] THEN Roberta ELSE None)
               /\ r.model3 = (IF tried(BertSST2) /\ ok[BertSST2] THEN BertSST2 ELSE None)
    /\ (Inferred(call) /\ model1 = RobertaFallback /\ ~call.raw[1].raises) =>
         /\ call.result[1] = C6_Expected(call.raw[1])
         /\ call.result[1] # 0

\* Slot 1 is Degraded (the primary failed once, the fallback was constructed)
\* and scored -0.9 from the fallback's NEGATIVE 0.9.
C12_Witness ==
    /\ model1 = RobertaFallback
    /\ built[MentalBert] = 1 /\ made[MentalBert] = 0
    /\ made[RobertaFallback] = 1
    /\ Inferred(call)
    /\ call.raw[1] = Returns("NEGATIVE", 9)
    /\ call.result[1] = -9

\* C14: construction failures are isolated between slots: once a run of
\* _load_models has ended, the construction of every one of the three slots
\* has been attempted, whatever happened to the earlier ones, also when both
\* the primary and the fallback of slot 1 failed.
C14_EverySlotAttempted ==
    SlotEnded(1) => SlotEnded(2) /\ SlotEnded(3)

\* C15: on an analyzer used by one thread, models_loaded = true implies that
\* the construction attempts of all three slots are over, and a call that
\* invoked a model for inference did so with models_loaded = true.
C15_LoadedBeforeInference ==
    /\ models_loaded => \A i \in Slots : SlotEnded(i)
    /\ (call.op \in {"analyze", "average"} /\ call.invoked # <<>>) => models_loaded
    /\ (call.op \in {"analyze", "average"} /\ ~models_loaded) =>
          call.invoked = <<>> /\ call.raw = <<>>

\* A call ran the models after a load in which the attempt for model 2
\* failed and the attempt for model 3 succeeded.
C15_Witness ==
    /\ models_loaded
    /\ Inferred(call)
    /\ built[Roberta] = 1 /\ model2 = None
    /\ built[BertSST2] = 1 /\ model3 = BertSST2

\* C13: a pipeline is constructed more than once on one analyzer only when
\* the callers do not serialize their calls: two threads that both read
\* models_loaded = False before either has set it both run the body of
\* _load_models.  With the calls serialized no pipeline is constructed twice.
C13_DuplicateLoadNeedsRace ==
    /\ \A c \in Capabilities : made[c] > 1 => ~thr.serialized
    /\ made[MentalBert] + made[RobertaFallback] > 1 => ~thr.serialized

\* Both threads passed the check of line 183 and each constructed model 1,
\* with no construction failure involved.
C13_Witness ==
    /\ ~thr.serialized
    /\ thr.pc["A"] = "model2"
    /\ thr.pc["B"] = "model2"
    /\ built[MentalBert] = 2
    /\ made[MentalBert] = 2
    /\ ~models_loaded

====
